---- MODULE Spec2Model ----
(***************************************************************************)
(* Model of rehearsal-track-markers: the Show/Track/Marker data model and  *)
(* its dictionary codec, the show repository and file manager, the audio   *)
(* file manager (asset copy with content comparison), and the application  *)
(* controller with its debounced auto-save timer.                          *)
(*                                                                         *)
(* Representation:                                                         *)
(*   - a dict is a function whose DOMAIN is its set of keys;               *)
(*   - an optional value is <<>> (None) or <<v>>;                          *)
(*   - a path is the sequence of its components;                           *)
(*   - a file name is [stem, ext] where stem is the sequence of the        *)
(*     "_"-separated parts of the name before the extension, so that       *)
(*     "song_1.mp3" is [stem |-> <<"song", "1">>, ext |-> ".mp3"];         *)
(*   - a file's content is a sequence of bytes;                            *)
(*   - the result of an operation that raised is [error |-> <exception>].  *)
(***************************************************************************)
EXTENDS Integers, Sequences, FiniteSets, TLC

VARIABLES
    \* models/track.py: one Track under test, the outcome of the last call, and
    \* that call with the markers it found
    track, add_result, track_call,
    \* persistence: the in-memory show handed to the repository, the managed
    \* storage tree, and the result of the last load
    show, dirs, docs, assets, loaded, rpc,
    \* audio/audio_file_manager.py: the last two copy_audio_file calls (source,
    \* result, and whether the call added a file), and every (path, bytes)
    \* pair ever returned
    copy_result, prev_result, returned,
    \* _get_unique_filename in progress: the k for which "<stem>_<k><ext>"
    \* exists in the directory, the loop's counter, and what it returned
    probe_taken, probe_counter, probe_result,
    \* export_show / import_show: the directories and the files outside the
    \* managed storage tree (path -> content)
    ext_dirs, ext_files,
    \* app_controller.py: the controller's fields, the marker list widget and
    \* the auto-save QTimer
    current_show, current_track_index, is_modified,
    ui_markers, ui_selected,
    timer_active, timer_remaining,
    \* history: whether the Show object that was current at the last
    \* _trigger_auto_save still is, whether that call found the timer running,
    \* the time since that call and the auto-saves since, and what the last
    \* handler did
    notified_is_current, burst_restarted, since_notify, saves_since_notify,
    last_event

vars == << track, add_result, track_call,
           show, dirs, docs, assets, loaded, rpc,
           copy_result, prev_result, returned,
           probe_taken, probe_counter, probe_result,
           ext_dirs, ext_files,
           current_show, current_track_index, is_modified,
           ui_markers, ui_selected,
           timer_active, timer_remaining,
           notified_is_current, burst_restarted, since_notify,
           saves_since_notify, last_event >>

trackVars == << track, add_result, track_call >>
repoVars  == << show, loaded, rpc >>
fsVars    == << dirs, docs, assets >>
extVars   == << ext_dirs, ext_files >>
probeVars == << probe_taken, probe_counter, probe_result >>
assetVars == << copy_result, prev_result, returned, probeVars >>
ctlVars   == << current_show, current_track_index, is_modified,
                ui_markers, ui_selected, timer_active, timer_remaining,
                notified_is_current, burst_restarted, since_notify,
           saves_since_notify, last_event >>

----------------------------------------------------------------------------
(* Bounds of the model *)

\* markers of the track under test (SpecTrack)
MaxMarkers == 3
\* tracks of a show and markers of a track handed to the repository (SpecRepo)
RepoMaxTracks == 1
RepoMaxMarkers == 2
\* bytes of an audio file and files of an asset directory (SpecAsset)
MaxFileLen == 1
MaxFiles == 3
\* controller: tracks of the current show, markers of a track, the largest
\* timestamp a nudge may reach, and the time that passes in one step
MaxCtlTracks == 1
MaxCtlMarkers == 1
MaxTimestampMs == 100
TickMs == 100

----------------------------------------------------------------------------
(* Generic helpers *)

None == <<>>
Some(v) == <<v>>

Err(e) == [error |-> e]
IsErr(r) == "error" \in DOMAIN r

EmptyDict == [k \in {} |-> k]
Get(d, k, default) == IF k \in DOMAIN d THEN d[k] ELSE default

Front(s) == SubSeq(s, 1, Len(s) - 1)
Last(s) == s[Len(s)]
RemoveAt(s, i) == SubSeq(s, 1, i - 1) \o SubSeq(s, i + 1, Len(s))
Min(a, b) == IF a < b THEN a ELSE b
Max(a, b) == IF a > b THEN a ELSE b

SeqsUpTo(S, n) == UNION { [1..k -> S] : k \in 0..n }

\* not s or not s.strip(): the strings of the model that are empty or
\* whitespace-only
BlankNames == { "", " " }
IsBlank(s) == s \in BlankNames

\* A file name "<stem>.<ext>"; the empty name is [stem |-> << >>, ext |-> ""]
FileName(stem, ext) == [stem |-> stem, ext |-> ext]
IsBlankFileName(f) == f.stem = << >> /\ f.ext = ""

\* pathlib's "/" on a directory and a file name
JoinPath(dir, name) == [dir |-> dir, name |-> name]

----------------------------------------------------------------------------
(* models/marker.py *)

Marker(name, timestamp_ms) ==
    IF IsBlank(name) THEN Err("ValueError")
    ELSE IF timestamp_ms < 0 THEN Err("ValueError")
    ELSE [name |-> name, timestamp_ms |-> timestamp_ms]

Marker_to_dict(m) == [name |-> m.name, timestamp_ms |-> m.timestamp_ms]

Marker_from_dict(data) ==
    IF "name" \notin DOMAIN data \/ "timestamp_ms" \notin DOMAIN data
    THEN Err("KeyError")
    ELSE Marker(data["name"], data["timestamp_ms"])

----------------------------------------------------------------------------
(* models/track.py *)

has_marker(markers, name) == \E i \in 1..Len(markers) : markers[i].name = name

\* list.sort(key=lambda m: m.timestamp_ms): a stable sort, as insertion sort
InsertByTimestamp(s, m) ==
    LET after == { i \in 1..Len(s) : s[i].timestamp_ms > m.timestamp_ms }
        pos == IF after = {} THEN Len(s) + 1
               ELSE CHOOSE i \in after : \A j \in after : i <= j
    IN SubSeq(s, 1, pos - 1) \o << m >> \o SubSeq(s, pos, Len(s))

RECURSIVE SortByTimestamp(_)
SortByTimestamp(s) ==
    IF s = << >> THEN << >>
    ELSE InsertByTimestamp(SortByTimestamp(Front(s)), Last(s))

\* Track.add_marker: whether it raises ValueError, and the markers after a
\* call that does not
add_marker_raises_same_timestamp(markers, marker) ==
    \E i \in 1..Len(markers) : markers[i] = marker
add_marker_raises(markers, marker) == has_marker(markers, marker.name)
add_marker_unsorted(markers, marker) == Append(markers, marker)
add_marker(markers, marker) == SortByTimestamp(Append(markers, marker))

\* Track.remove_marker(name): the first marker of that name is deleted
remove_marker(markers, name) ==
    LET hits == { i \in 1..Len(markers) : markers[i].name = name }
    IN IF hits = {} THEN markers
       ELSE RemoveAt(markers, CHOOSE i \in hits : \A j \in hits : i <= j)

\* Track.rename_marker(old_name, new_name): whether it raises ValueError, and
\* the markers after a call that does not (get_marker finds the first marker
\* named old_name)
rename_marker_raises_blank_only(markers, old_name, new_name) == IsBlank(new_name)
rename_marker_raises(markers, old_name, new_name) ==
    IF IsBlank(new_name) THEN TRUE
    ELSE old_name # new_name /\ has_marker(markers, new_name)
rename_marker(markers, old_name, new_name) ==
    LET hits == { i \in 1..Len(markers) : markers[i].name = old_name }
    IN IF hits = {} THEN markers
       ELSE [markers EXCEPT ![CHOOSE i \in hits : \A j \in hits : i <= j].name = new_name]

Track(filename, audio_path, markers, duration_ms) ==
    IF IsBlankFileName(filename) THEN Err("ValueError")
    ELSE [filename |-> filename, audio_path |-> audio_path,
          markers |-> markers, duration_ms |-> duration_ms]

Track_to_dict_truthy(t) ==
    LET ms == [i \in 1..Len(t.markers) |-> Marker_to_dict(t.markers[i])]
    IN IF t.duration_ms # None /\ t.duration_ms[1] # 0
       THEN [filename |-> t.filename, markers |-> ms, duration_ms |-> t.duration_ms[1]]
       ELSE [filename |-> t.filename, markers |-> ms]
Track_to_dict(t) ==
    LET ms == [i \in 1..Len(t.markers) |-> Marker_to_dict(t.markers[i])]
    IN IF t.duration_ms # None
       THEN [filename |-> t.filename, markers |-> ms, duration_ms |-> t.duration_ms[1]]
       ELSE [filename |-> t.filename, markers |-> ms]

Track_from_dict(data, audio_path) ==
    LET md == Get(data, "markers", << >>)
        ms == [i \in 1..Len(md) |-> Marker_from_dict(md[i])]
        bad == { i \in 1..Len(ms) : IsErr(ms[i]) }
    IN IF bad # {} THEN ms[CHOOSE i \in bad : \A j \in bad : i <= j]
       ELSE IF "filename" \notin DOMAIN data THEN Err("KeyError")
       ELSE Track(data["filename"], audio_path, ms,
                  IF "duration_ms" \in DOMAIN data THEN Some(data["duration_ms"]) ELSE None)

----------------------------------------------------------------------------
(* models/show.py *)

Settings_unvalidated(skip_increment_seconds, marker_nudge_increment_ms) ==
    [skip_increment_seconds |-> skip_increment_seconds,
     marker_nudge_increment_ms |-> marker_nudge_increment_ms]
Settings(skip_increment_seconds, marker_nudge_increment_ms) ==
    IF skip_increment_seconds <= 0 THEN Err("ValueError")
    ELSE IF marker_nudge_increment_ms <= 0 THEN Err("ValueError")
    ELSE [skip_increment_seconds |-> skip_increment_seconds,
          marker_nudge_increment_ms |-> marker_nudge_increment_ms]

DefaultSkipIncrementSeconds == 5
DefaultMarkerNudgeIncrementMs == 100

DefaultSettings == Settings(DefaultSkipIncrementSeconds, DefaultMarkerNudgeIncrementMs)

Settings_to_dict(s) ==
    [skip_increment_seconds |-> s.skip_increment_seconds,
     marker_nudge_increment_ms |-> s.marker_nudge_increment_ms]

Settings_from_dict_rejects_unknown(data) ==
    IF ~(DOMAIN data \subseteq { "skip_increment_seconds", "marker_nudge_increment_ms" })
    THEN Err("TypeError")
    ELSE Settings(Get(data, "skip_increment_seconds", DefaultSkipIncrementSeconds),
                  Get(data, "marker_nudge_increment_ms", DefaultMarkerNudgeIncrementMs))
Settings_from_dict(data) ==
    Settings(Get(data, "skip_increment_seconds", DefaultSkipIncrementSeconds),
             Get(data, "marker_nudge_increment_ms", DefaultMarkerNudgeIncrementMs))

Show(name, tracks, settings) ==
    IF IsBlank(name) THEN Err("ValueError")
    ELSE [name |-> name, tracks |-> tracks, settings |-> settings]

Show_to_dict(s) ==
    [show_name |-> s.name,
     settings |-> Settings_to_dict(s.settings),
     tracks |-> [i \in 1..Len(s.tracks) |-> Track_to_dict(s.tracks[i])]]

\* One pass of the loop of Show.from_dict over data["tracks"]
TrackEntry_from_dict(track_data, audio_base_path) ==
    IF "filename" \notin DOMAIN track_data THEN Err("KeyError")
    ELSE Track_from_dict(track_data, JoinPath(audio_base_path, track_data["filename"]))

Show_from_dict(data, audio_base_path) ==
    LET settings == Settings_from_dict(Get(data, "settings", EmptyDict))
        td == Get(data, "tracks", << >>)
        ts == [i \in 1..Len(td) |-> TrackEntry_from_dict(td[i], audio_base_path)]
        bad == { i \in 1..Len(ts) : IsErr(ts[i]) }
    IN IF IsErr(settings) THEN settings
       ELSE IF bad # {} THEN ts[CHOOSE i \in bad : \A j \in bad : i <= j]
       ELSE IF "show_name" \notin DOMAIN data THEN Err("KeyError")
       ELSE Show(data["show_name"], ts, settings)

----------------------------------------------------------------------------
(* persistence/file_manager.py: the managed storage tree                   *)
(*   dirs   : the directories that exist, as paths                         *)
(*   docs   : show name -> content of <base>/shows/<name>/<name>.json,     *)
(*            defined for the metadata files that exist                    *)
(*   assets : show name -> (file name -> bytes), the files of              *)
(*            <base>/shows/<name>/audio/                                   *)

get_shows_directory == << "shows" >>
get_show_directory(show_name) == Append(get_shows_directory, show_name)
get_show_audio_directory(show_name) == Append(get_show_directory(show_name), "audio")
get_show_file_path(show_name) ==
    JoinPath(get_show_directory(show_name), FileName(<< show_name >>, ".json"))

\* mkdir(parents=True, exist_ok=True) of the show directory and its audio directory
create_show_directories(ds, show_name) ==
    ds \cup { get_shows_directory, get_show_directory(show_name),
              get_show_audio_directory(show_name) }

show_exists(dc, show_name) == show_name \in DOMAIN dc

Put(f, k, v) == [x \in DOMAIN f \cup {k} |-> IF x = k THEN v ELSE f[x]]
Drop(f, k) == [x \in DOMAIN f \ {k} |-> f[x]]

\* Python's order on the show names of the model
NameRank(n) == CASE n = "A" -> 1 [] n = "B" -> 2 [] OTHER -> 3

\* sorted(show_names)
Sorted(names) ==
    CHOOSE q \in [1..Cardinality(names) -> names] :
        \A i, j \in 1..Cardinality(names) : i < j => NameRank(q[i]) < NameRank(q[j])

\* FileManager.list_shows: the directories of the shows directory that hold
\* their metadata file, sorted
list_shows_all_directories(ds, dc) ==
    IF get_shows_directory \notin ds THEN << >>
    ELSE Sorted({ d[2] : d \in { x \in ds : Len(x) = 2 } })
list_shows(ds, dc) ==
    IF get_shows_directory \notin ds THEN << >>
    ELSE Sorted({ d[2] : d \in { x \in ds : Len(x) = 2 /\ x[2] \in DOMAIN dc } })

\* FileManager.delete_show: what it returns, and the storage after
\* shutil.rmtree(show_dir)
delete_show_result(ds, show_name) == get_show_directory(show_name) \in ds
delete_show_dirs(ds, show_name) ==
    IF ~delete_show_result(ds, show_name) THEN ds
    ELSE { d \in ds : ~(Len(d) >= 2 /\ d[2] = show_name) }
delete_show_docs(ds, dc, show_name) ==
    IF ~delete_show_result(ds, show_name) THEN dc ELSE Drop(dc, show_name)
delete_show_assets(ds, as, show_name) ==
    IF ~delete_show_result(ds, show_name) THEN as ELSE Drop(as, show_name)

FilesOf(as, show_name) == IF show_name \in DOMAIN as THEN as[show_name] ELSE EmptyDict

----------------------------------------------------------------------------
(* persistence/show_repository.py *)

\* ShowRepository.save: the storage after a save that did not raise
save_dirs(ds, s) == create_show_directories(ds, s.name)
save_docs_keep_existing(dc, s) ==
    IF s.name \in DOMAIN dc THEN dc ELSE Put(dc, s.name, Show_to_dict(s))
save_docs_alone(dc, s) == [k \in { s.name } |-> Show_to_dict(s)]
save_docs(dc, s) == Put(dc, s.name, Show_to_dict(s))

\* A metadata file left truncated by a write that failed: json.load raises on it
Corrupt == [corrupt |-> TRUE]

\* ShowRepository.save with its I/O: it returns ("ok"), or OSError is raised
\* by mkdir (nothing changes), by open (the directories were made) or by the
\* write (the file is left truncated)
SaveOutcomes == { "ok", "mkdir_failed", "open_failed", "write_failed" }
save_dirs_after(ds, s, outcome) ==
    IF outcome = "mkdir_failed" THEN ds ELSE save_dirs(ds, s)
save_docs_after(dc, s, outcome) ==
    CASE outcome = "ok" -> save_docs(dc, s)
      [] outcome = "write_failed" -> Put(dc, s.name, Corrupt)
      [] OTHER -> dc

\* ShowRepository.load: the Show, or the error raised
load(dc, show_name) ==
    IF show_name \notin DOMAIN dc THEN Err("FileNotFoundError")
    ELSE IF dc[show_name] = Corrupt THEN Err("JSONDecodeError")
    ELSE Show_from_dict(dc[show_name], get_show_audio_directory(show_name))

\* A path given to export_show or import_show is any path: the metadata file
\* of a show inside the managed tree, or a file outside of it
IsManagedDir(dir) == Len(dir) >= 1 /\ dir[1] = get_shows_directory[1]
IsShowFilePath(path) == \E n \in { "A", "B" } : path = get_show_file_path(n)
ShowOfPath(path) == CHOOSE n \in { "A", "B" } : path = get_show_file_path(n)
path_exists(dc, xf, path) ==
    IF IsShowFilePath(path) THEN ShowOfPath(path) \in DOMAIN dc ELSE path \in DOMAIN xf
read_file(dc, xf, path) ==
    IF IsShowFilePath(path) THEN dc[ShowOfPath(path)] ELSE xf[path]
\* dir and every parent of it, as mkdir(parents=True, exist_ok=True) leaves them
Parents(dir) == { SubSeq(dir, 1, k) : k \in 1..Len(dir) }

\* ShowRepository.export_show(s, export_path): the managed tree and the
\* files outside of it after the call
export_dirs(ds, s, export_path) ==
    ds \cup { d \in Parents(export_path.dir) : IsManagedDir(d) }
export_ext_dirs(xd, s, export_path) ==
    xd \cup { d \in Parents(export_path.dir) : ~IsManagedDir(d) }
export_docs_also_saves(dc, s, export_path) == Put(dc, s.name, Show_to_dict(s))
export_docs(dc, s, export_path) ==
    IF IsShowFilePath(export_path)
    THEN Put(dc, ShowOfPath(export_path), Show_to_dict(s)) ELSE dc
export_ext_files(xf, s, export_path) ==
    IF IsShowFilePath(export_path) THEN xf ELSE Put(xf, export_path, Show_to_dict(s))

\* ShowRepository.import_show(import_path, audio_source_dir): the Show, or
\* the error raised
import_show_same_directory(dc, xf, import_path, audio_source_dir) ==
    IF ~path_exists(dc, xf, import_path) THEN Err("FileNotFoundError")
    ELSE IF read_file(dc, xf, import_path) = Corrupt THEN Err("JSONDecodeError")
    ELSE Show_from_dict(read_file(dc, xf, import_path),
                        IF audio_source_dir = None THEN import_path.dir
                        ELSE audio_source_dir[1])
import_show(dc, xf, import_path, audio_source_dir) ==
    IF ~path_exists(dc, xf, import_path) THEN Err("FileNotFoundError")
    ELSE IF read_file(dc, xf, import_path) = Corrupt THEN Err("JSONDecodeError")
    ELSE Show_from_dict(read_file(dc, xf, import_path),
                        IF audio_source_dir = None
                        THEN Append(import_path.dir, "audio")
                        ELSE audio_source_dir[1])

----------------------------------------------------------------------------
(* audio/audio_file_manager.py *)

SUPPORTED_FORMATS ==
    { ".mp3", ".wav", ".m4a", ".aac", ".flac", ".ogg", ".opus", ".wma", ".aiff", ".aif" }

\* str.lower() on the extensions of the model
Lower(ext) ==
    CASE ext = ".MP3" -> ".mp3"
      [] ext = ".TXT" -> ".txt"
      [] OTHER -> ext

is_supported_format(name) == Lower(name.ext) \in SUPPORTED_FORMATS

chunk_size == 8192

\* f.read(chunk_size) at offset off
ReadChunk(bytes, off) == SubSeq(bytes, off + 1, Min(off + chunk_size, Len(bytes)))

\* The loop of _files_are_identical over the two open files
RECURSIVE CompareChunks(_, _, _, _)
CompareChunks(b1, b2, off1, off2) ==
    LET chunk1 == ReadChunk(b1, off1)
        chunk2 == ReadChunk(b2, off2)
    IN IF chunk1 # chunk2 THEN FALSE
       ELSE IF chunk1 = << >> THEN TRUE
       ELSE CompareChunks(b1, b2, off1 + Len(chunk1), off2 + Len(chunk2))

files_are_identical_by_size(b1, b2) == Len(b1) = Len(b2)
files_are_identical(b1, b2) ==
    IF Len(b1) # Len(b2) THEN FALSE
    ELSE CompareChunks(b1, b2, 0, 0)

MaxProbe == 10000

\* The loop of _get_unique_filename from the given counter on: the first
\* "<stem>_<counter><ext>" that names no entry of the directory
\* f"{stem}_{counter}{suffix}"
suffixed_name(filename, counter) ==
    FileName(Append(filename.stem, ToString(counter)), filename.ext)

\* The safety check after counter += 1
probe_exhausted_early(counter) == counter >= MaxProbe
probe_exhausted(counter) == counter > MaxProbe

RECURSIVE ProbeUnique(_, _, _)
ProbeUnique(files, filename, counter) ==
    LET new_name == suffixed_name(filename, counter)
    IN IF new_name \notin DOMAIN files THEN new_name
       ELSE IF probe_exhausted(counter + 1) THEN Err("ValueError")
       ELSE ProbeUnique(files, filename, counter + 1)

get_unique_filename(files, filename) == ProbeUnique(files, filename, 1)

\* copy_audio_file(source, show_name) on an asset directory holding `files`:
\* the error raised, or the destination name and whether shutil.copy2 runs
copy_audio_file_format_first(files, source) ==
    IF ~is_supported_format(source.name) THEN Err("ValueError")
    ELSE IF ~source.exists THEN Err("FileNotFoundError")
    ELSE [dest |-> source.name, copies |-> source.name \notin DOMAIN files]
copy_audio_file(files, source) ==
    IF ~source.exists THEN Err("FileNotFoundError")
    ELSE IF ~is_supported_format(source.name) THEN Err("ValueError")
    ELSE IF source.name \in DOMAIN files
         THEN IF files_are_identical(source.bytes, files[source.name])
              THEN [dest |-> source.name, copies |-> FALSE]
              ELSE LET unique == get_unique_filename(files, source.name)
                   IN IF IsErr(unique) THEN unique
                      ELSE [dest |-> unique, copies |-> TRUE]
         ELSE [dest |-> source.name, copies |-> TRUE]

\* The directories audio_dir.mkdir(parents=True, exist_ok=True) leaves
mkdir_audio_directory(ds, show_name) ==
    ds \cup { get_shows_directory, get_show_directory(show_name),
              get_show_audio_directory(show_name) }

----------------------------------------------------------------------------
(* Structural equality of two shows: name, settings, and per track the     *)
(* filename, the duration and the (name, timestamp) pairs in order          *)

SameTrack(a, b) ==
    /\ a.filename = b.filename
    /\ a.duration_ms = b.duration_ms
    /\ Len(a.markers) = Len(b.markers)
    /\ \A i \in 1..Len(a.markers) :
          /\ a.markers[i].name = b.markers[i].name
          /\ a.markers[i].timestamp_ms = b.markers[i].timestamp_ms

SameShow(a, b) ==
    /\ a.name = b.name
    /\ a.settings.skip_increment_seconds = b.settings.skip_increment_seconds
    /\ a.settings.marker_nudge_increment_ms = b.settings.marker_nudge_increment_ms
    /\ Len(a.tracks) = Len(b.tracks)
    /\ \A i \in 1..Len(a.tracks) : SameTrack(a.tracks[i], b.tracks[i])

IsSorted(markers) ==
    \A i \in 1..Len(markers) - 1 :
        markers[i].timestamp_ms <= markers[i + 1].timestamp_ms

UniqueNames(markers) ==
    \A i, j \in 1..Len(markers) : markers[i].name = markers[j].name => i = j

\* _on_edit_marker(index) on the markers of the current track: whether the
\* duplicate check (every marker but the one at index) shows the error, and
\* the markers after marker.name = new_name
edit_marker_rejected_never(markers, index, new_name) == FALSE
edit_marker_rejected(markers, index, new_name) ==
    \E i \in 1..Len(markers) : i # index + 1 /\ markers[i].name = new_name
edit_marker(markers, index, new_name) ==
    [markers EXCEPT ![index + 1].name = new_name]

----------------------------------------------------------------------------
(* Values the variables of the parts not under test are held at *)

ShowNames == { "A", "B" }
NoShow == [none |-> TRUE]
SongMp3 == FileName(<< "song" >>, ".mp3")
NoResult == [none |-> TRUE]
Event(kind, ok, dialog) ==
    [kind |-> kind, ok |-> ok, dialog |-> dialog,
     saved_notified |-> FALSE, was_modified |-> FALSE,
     direction |-> 0, from_ms |-> 0, duration_ms |-> 0]
NoEvent == Event("init", TRUE, "none")
\* any handler that is not a save
OtherEvent == Event("other", TRUE, "none")

\* A call on the track under test: the method, its arguments (those it does
\* not take are "" or -1) and the markers it found
TrackCall(op, name, new_name, index, timestamp_ms, before) ==
    [op |-> op, name |-> name, new_name |-> new_name, index |-> index,
     timestamp_ms |-> timestamp_ms, before |-> before]
IdleTrack ==
    /\ track = Track(SongMp3, JoinPath(get_show_audio_directory("A"), SongMp3), << >>, None)
    /\ add_result = "none"
    /\ track_call = TrackCall("none", "", "", -1, -1, << >>)
IdleRepo ==
    /\ show = NoShow
    /\ loaded = NoResult
    /\ rpc = "init"
EmptyStorage ==
    /\ dirs = {}
    /\ docs = EmptyDict
    /\ assets = EmptyDict
IdleExport ==
    /\ ext_dirs = {}
    /\ ext_files = << >>
IdleProbe ==
    /\ probe_taken = {}
    /\ probe_counter = 1
    /\ probe_result = NoResult
IdleAsset ==
    /\ copy_result = NoResult
    /\ prev_result = NoResult
    /\ returned = {}
    /\ IdleProbe
IdleController ==
    /\ current_show = NoShow
    /\ current_track_index = -1
    /\ is_modified = FALSE
    /\ ui_markers = << >>
    /\ ui_selected = -1
    /\ timer_active = FALSE
    /\ timer_remaining = 0
    /\ notified_is_current = FALSE
    /\ burst_restarted = FALSE
    /\ since_notify = 0
    /\ saves_since_notify = 0
    /\ last_event = NoEvent

----------------------------------------------------------------------------------------------------------------------------------------
(* SpecTrack: Track.add_marker, remove_marker and rename_marker, and the    *)
(* rename of _on_edit_marker, called any number of times on a track that    *)
(* starts with no markers                                                   *)

TrackNamePool == << "a", "b", "c", "d" >>
TrackMarkerNames == { TrackNamePool[i] : i \in 1..Min(MaxMarkers, Len(TrackNamePool)) }
TrackTimestamps == { 0, 100, 200 }
TrackMarkers == { Marker(n, t) : n \in TrackMarkerNames, t \in TrackTimestamps }

T_AddMarker(m) ==
    /\ Len(track.markers) < MaxMarkers \/ has_marker(track.markers, m.name)
    /\ track_call' = TrackCall("add_marker", m.name, "", -1, m.timestamp_ms, track.markers)
    /\ IF add_marker_raises(track.markers, m)
       THEN /\ add_result' = "ValueError"
            /\ track' = track
       ELSE /\ add_result' = "ok"
            /\ track' = [track EXCEPT !.markers = add_marker(track.markers, m)]
    /\ UNCHANGED << repoVars, fsVars, assetVars, ctlVars, extVars >>

T_RemoveMarker(name) ==
    /\ track_call' = TrackCall("remove_marker", name, "", -1, -1, track.markers)
    /\ add_result' = IF has_marker(track.markers, name) THEN "True" ELSE "False"
    /\ track' = [track EXCEPT !.markers = remove_marker(track.markers, name)]
    /\ UNCHANGED << repoVars, fsVars, assetVars, ctlVars, extVars >>

T_RenameMarker(old_name, new_name) ==
    /\ track_call' = TrackCall("rename_marker", old_name, new_name, -1, -1, track.markers)
    /\ IF rename_marker_raises(track.markers, old_name, new_name)
       THEN /\ add_result' = "ValueError"
            /\ track' = track
       ELSE /\ add_result' = IF has_marker(track.markers, old_name) THEN "True" ELSE "False"
            /\ track' = [track EXCEPT !.markers =
                                rename_marker(track.markers, old_name, new_name)]
    /\ UNCHANGED << repoVars, fsVars, assetVars, ctlVars, extVars >>

\* _on_edit_marker(index) with this track current: EditMarkerDialog accepts a
\* non-blank name
T_EditMarker(index, new_name) ==
    /\ 0 <= index /\ index < Len(track.markers)
    /\ ~IsBlank(new_name)
    /\ track_call' = TrackCall("edit_marker", track.markers[index + 1].name, new_name,
                               index, -1, track.markers)
    /\ IF edit_marker_rejected(track.markers, index, new_name)
       THEN /\ add_result' = "Duplicate Marker"
            /\ track' = track
       ELSE /\ add_result' = "ok"
            /\ track' = [track EXCEPT !.markers = edit_marker(track.markers, index, new_name)]
    /\ UNCHANGED << repoVars, fsVars, assetVars, ctlVars, extVars >>

InitTrack == IdleTrack /\ IdleExport /\ IdleRepo /\ EmptyStorage /\ IdleAsset /\ IdleController
NextTrack ==
    \/ \E m \in TrackMarkers : T_AddMarker(m)
    \/ \E n \in TrackMarkerNames : T_RemoveMarker(n)
    \/ \E o \in TrackMarkerNames, n \in TrackMarkerNames \cup BlankNames : T_RenameMarker(o, n)
    \/ \E i \in 0..(MaxMarkers - 1), n \in TrackMarkerNames : T_EditMarker(i, n)
SpecTrack == InitTrack /\ [][NextTrack]_vars

\* C9: after every Track.add_marker call, successful or rejected, on a track
\* that started with no markers, track.markers is sorted ascending by
\* timestamp_ms.
C9_SortedAfterAdd == add_result # "none" => IsSorted(track.markers)

\* A marker with a smaller timestamp was added after one with a larger one,
\* and a later add was rejected.
C9_Witness ==
    /\ add_result = "ValueError"
    /\ Len(track.markers) = MaxMarkers
    /\ track.markers[1].name = "c"
    /\ track.markers[1].timestamp_ms < track.markers[2].timestamp_ms
    /\ track.markers[2].name = "a"

\* C11: Track.add_marker with a marker whose name equals the name of a marker
\* already in the track raises ValueError and leaves track.markers as it
\* found them, whatever the new marker's timestamp.
C11_DuplicateAddRejected ==
    (track_call.op = "add_marker" /\ has_marker(track_call.before, track_call.name))
    => /\ add_result = "ValueError"
       /\ track.markers = track_call.before

\* An add was rejected on a track of two markers, the new marker carrying a
\* timestamp other than that of the marker of the same name.
C11_Witness ==
    /\ track_call.op = "add_marker"
    /\ add_result = "ValueError"
    /\ Len(track_call.before) = 2
    /\ \E i \in 1..2 : /\ track_call.before[i].name = track_call.name
                        /\ track_call.before[i].timestamp_ms # track_call.timestamp_ms

\* C12: after any sequence of add_marker, remove_marker, rename_marker and the
\* controller's edit-marker rename, no two markers of the track have the same
\* name; a rename to a name held by another marker is rejected and changes
\* nothing.
C12_UniqueNames ==
    /\ UniqueNames(track.markers)
    /\ ( /\ track_call.op = "rename_marker"
          /\ track_call.name # track_call.new_name
          /\ has_marker(track_call.before, track_call.new_name) )
       => (add_result = "ValueError" /\ track.markers = track_call.before)
    /\ ( /\ track_call.op = "edit_marker"
          /\ track_call.name # track_call.new_name
          /\ has_marker(track_call.before, track_call.new_name) )
       => (add_result = "Duplicate Marker" /\ track.markers = track_call.before)

\* Track.rename_marker was asked to give a marker the name of another marker
\* of the track.
C12_Witness ==
    /\ track_call.op = "rename_marker"
    /\ add_result = "ValueError"
    /\ Len(track.markers) >= 2
    /\ track_call.name # track_call.new_name
    /\ has_marker(track_call.before, track_call.name)
    /\ has_marker(track_call.before, track_call.new_name)

----------------------------------------------------------------------------
(* SpecRepo: a validly constructed show is saved, loaded, deleted and      *)
(* passed through the codec, over a storage tree that may already hold a   *)
(* document                                                                *)

RepoMarkers == { Marker("a", 100), Marker("b", 0) }
RepoDurations == { None, Some(0) }
RepoShowNames == { "A" }
RepoSettings == { DefaultSettings, Settings(10, 50) }
ExternalAudioDir == << "home", "audio" >>
BasePaths == { get_show_audio_directory(n) : n \in ShowNames } \cup { ExternalAudioDir }

\* Track(filename, audio_path, markers, duration_ms) accepts any list of
\* valid markers
RepoTracks ==
    { Track(SongMp3, JoinPath(ExternalAudioDir, SongMp3), ms, d) :
        ms \in SeqsUpTo(RepoMarkers, RepoMaxMarkers), d \in RepoDurations }
RepoShows ==
    { Show(n, ts, st) :
        n \in RepoShowNames, ts \in SeqsUpTo(RepoTracks, RepoMaxTracks), st \in RepoSettings }

\* Documents found in storage before the first save: an older show of
\* either name, a document without its required fields, a truncated file
StaleShow(n) ==
    Show(n, << Track(SongMp3, JoinPath(ExternalAudioDir, SongMp3),
                     << Marker("old", 700) >>, Some(900)) >>, Settings(7, 70))
PriorFiles == { Show_to_dict(StaleShow("A")), [tracks |-> << >>], Corrupt }
PriorDocs ==
    { EmptyDict, [k \in {"B"} |-> Show_to_dict(StaleShow("B"))] }
        \cup { [k \in {n} |-> d] : n \in RepoShowNames, d \in PriorFiles }

InitRepo ==
    /\ show \in RepoShows
    /\ docs \in PriorDocs
    /\ dirs = UNION { create_show_directories({}, n) : n \in DOMAIN docs }
    /\ assets = EmptyDict
    /\ loaded = NoResult
    /\ rpc = "init"
    /\ IdleTrack /\ IdleExport /\ IdleAsset /\ IdleController

\* ShowRepository.save(show)
R_Save ==
    /\ \E outcome \in SaveOutcomes :
        /\ dirs' = save_dirs_after(dirs, show, outcome)
        /\ docs' = save_docs_after(docs, show, outcome)
        /\ rpc' = IF outcome = "ok" THEN "saved" ELSE "save_failed"
    /\ UNCHANGED << show, loaded, assets, trackVars, assetVars, ctlVars, extVars >>

\* ShowRepository.load(show_name)
R_Load(show_name) ==
    /\ loaded' = load(docs, show_name)
    /\ rpc' = IF rpc = "saved" /\ show_name = show.name
              THEN "loaded_after_save" ELSE "loaded"
    /\ UNCHANGED << show, fsVars, trackVars, assetVars, ctlVars, extVars >>

\* Show.from_dict(show.to_dict(), audio_base_path)
R_RoundTrip(audio_base_path) ==
    /\ loaded' = Show_from_dict(Show_to_dict(show), audio_base_path)
    /\ rpc' = "decoded"
    /\ UNCHANGED << show, fsVars, trackVars, assetVars, ctlVars, extVars >>

NextRepo ==
    \/ R_Save
    \/ \E n \in ShowNames : R_Load(n)
    \/ \E b \in BasePaths : R_RoundTrip(b)
SpecRepo == InitRepo /\ [][NextRepo]_vars

----------------------------------------------------------------------------
(* SpecAsset: copy_audio_file called any number of times on one show whose *)
(* asset directory may already hold a file                                  *)

Bytes == { 0, 1 }
Contents == SeqsUpTo(Bytes, MaxFileLen)
Song1Mp3 == FileName(<< "song", "1" >>, ".mp3")
SongUpperMp3 == FileName(<< "song" >>, ".MP3")
NotesTxt == FileName(<< "notes" >>, ".txt")
Sources ==
    { [name |-> SongMp3, bytes |-> c, exists |-> TRUE] : c \in Contents }
    \cup { [name |-> Song1Mp3, bytes |-> << 1 >>, exists |-> TRUE],
           [name |-> NotesTxt, bytes |-> << >>, exists |-> TRUE],
           [name |-> SongUpperMp3, bytes |-> << 1 >>, exists |-> TRUE],
           [name |-> SongMp3, bytes |-> << >>, exists |-> FALSE],
           [name |-> NotesTxt, bytes |-> << >>, exists |-> FALSE] }
AssetShowNames == { "A" }

InitAsset ==
    /\ \E prior \in { EmptyDict } \cup { [k \in {SongMp3} |-> c] : c \in Contents } :
        /\ assets = IF prior = EmptyDict THEN EmptyDict ELSE [k \in {"A"} |-> prior]
        /\ dirs = IF prior = EmptyDict THEN {} ELSE mkdir_audio_directory({}, "A")
    /\ docs = EmptyDict
    /\ IdleAsset /\ IdleTrack /\ IdleExport /\ IdleRepo /\ IdleController

\* AudioFileManager.copy_audio_file(source, show_name)
A_Copy(source, show_name) ==
    LET files == FilesOf(assets, show_name)
        r == copy_audio_file(files, source)
    IN /\ IF IsErr(r) THEN TRUE
          ELSE IF r.copies THEN Cardinality(DOMAIN files) < MaxFiles
          ELSE TRUE
       /\ prev_result' = copy_result
       /\ IF IsErr(r)
          THEN /\ copy_result' = [source |-> source, show |-> show_name,
                                  result |-> r, added |-> FALSE]
               /\ dirs' = IF source.exists /\ is_supported_format(source.name)
                          THEN mkdir_audio_directory(dirs, show_name) ELSE dirs
               /\ UNCHANGED << assets, returned >>
          ELSE LET path == JoinPath(get_show_audio_directory(show_name), r.dest)
                   files2 == IF r.copies THEN Put(files, r.dest, source.bytes) ELSE files
               IN /\ dirs' = mkdir_audio_directory(dirs, show_name)
                  /\ assets' = Put(assets, show_name, files2)
                  /\ copy_result' = [source |-> source, show |-> show_name,
                                     result |-> [path |-> path],
                                     added |-> DOMAIN files2 # DOMAIN files]
                  /\ returned' = returned \cup { [path |-> path, bytes |-> source.bytes] }
       /\ UNCHANGED << docs, probeVars, trackVars, repoVars, ctlVars, extVars >>

NextAsset == \E source \in Sources, n \in AssetShowNames : A_Copy(source, n)
SpecAsset == InitAsset /\ [][NextAsset]_vars

\* The bytes stored at a path of the managed storage tree, None if no file
FileAt(path) ==
    LET n == path.dir[2]
    IN IF n \in DOMAIN assets /\ path.name \in DOMAIN assets[n]
       THEN Some(assets[n][path.name]) ELSE None

SuccessfulCopy(c) == c # NoResult /\ ~IsErr(c.result)

\* C3: two consecutive copy_audio_file calls with the same unchanged source
\* and show return the same destination path, and the second adds no file,
\* whatever the asset directory held before.
C3_DedupIdempotent ==
    ( /\ SuccessfulCopy(prev_result) /\ SuccessfulCopy(copy_result)
      /\ prev_result.source = copy_result.source
      /\ prev_result.show = copy_result.show )
    => /\ copy_result.result.path = prev_result.result.path
       /\ ~copy_result.added

\* C4: every destination path ever returned still holds exactly the bytes of
\* the source it was returned for, and the same path was never returned for
\* two sources with different content.
C4_NeverOverwrites ==
    /\ \A r \in returned : FileAt(r.path) = Some(r.bytes)
    /\ \A r1, r2 \in returned : r1.path = r2.path => r1.bytes = r2.bytes

\* song.mp3 was copied three times with three different contents: the second
\* and third copies went to song_1.mp3 and song_2.mp3.
C4_Witness ==
    /\ SuccessfulCopy(copy_result)
    /\ copy_result.source.name = SongMp3
    /\ copy_result.result.path.name = FileName(<< "song", "2" >>, ".mp3")
    /\ Cardinality({ r.bytes : r \in returned }) >= 2
    /\ Cardinality({ r \in returned : r.path.name = Song1Mp3 }) = 1

\* C14: a copy_audio_file call whose source does not exist raises
\* FileNotFoundError, whatever the extension; a call whose source exists with
\* an extension outside the allow-list (compared in lower case) raises
\* ValueError; and neither call creates or changes a directory or a file of
\* the managed storage.
C14_BadInputNoEffect ==
    [][ LET c == copy_result'
        IN /\ ~c.source.exists =>
                (c.result = Err("FileNotFoundError") /\ UNCHANGED fsVars)
           /\ (c.source.exists /\ Lower(c.source.name.ext) \notin SUPPORTED_FORMATS) =>
                (c.result = Err("ValueError") /\ UNCHANGED fsVars)
      ]_vars

\* A missing notes.txt was refused as not found and the storage is still empty.
C14_Witness ==
    /\ copy_result # NoResult
    /\ ~copy_result.source.exists
    /\ copy_result.source.name = NotesTxt
    /\ copy_result.result = Err("FileNotFoundError")
    /\ prev_result # NoResult
    /\ prev_result.result = Err("ValueError")
    /\ dirs = {}
    /\ assets = EmptyDict

----------------------------------------------------------------------------
(* SpecProbe: the loop of _get_unique_filename(directory, "song.mp3"), one  *)
(* pass per step, on a directory given by the suffixes k whose name         *)
(* "song_<k>.mp3" exists; copy_audio_file then writes the name returned     *)

\* the largest suffix of a sparsely filled directory
MaxSuffix == 3

ProbeDirectories == (SUBSET (1..MaxSuffix)) \cup { 1..(MaxProbe - 1), 1..MaxProbe }

\* The directory as the dictionary the operators above work on
AsFiles(taken) == [f \in { suffixed_name(SongMp3, k) : k \in taken } |-> << >>]

InitProbe ==
    /\ probe_taken \in ProbeDirectories
    /\ probe_counter = 1
    /\ probe_result = NoResult
    /\ copy_result = NoResult /\ prev_result = NoResult /\ returned = {}
    /\ EmptyStorage /\ IdleTrack /\ IdleExport /\ IdleRepo /\ IdleController

\* One pass of the while loop
P_Probe ==
    /\ probe_result = NoResult
    /\ IF probe_counter \notin probe_taken
       THEN /\ probe_result' = suffixed_name(SongMp3, probe_counter)
            /\ UNCHANGED probe_counter
       ELSE /\ probe_counter' = probe_counter + 1
            /\ probe_result' = IF probe_exhausted(probe_counter + 1)
                               THEN Err("ValueError") ELSE NoResult
    /\ UNCHANGED << probe_taken, copy_result, prev_result, returned,
                    fsVars, trackVars, repoVars, ctlVars, extVars >>

\* shutil.copy2 to the name returned, and the next call
P_CopyAndCallAgain ==
    /\ probe_result # NoResult
    /\ ~IsErr(probe_result)
    /\ probe_counter <= MaxSuffix + 1 \/ probe_counter = MaxProbe
    /\ probe_taken' = probe_taken \cup { probe_counter }
    /\ probe_counter' = 1
    /\ probe_result' = NoResult
    /\ UNCHANGED << copy_result, prev_result, returned,
                    fsVars, trackVars, repoVars, ctlVars, extVars >>

NextProbe == P_Probe \/ P_CopyAndCallAgain
SpecProbe == InitProbe /\ [][NextProbe]_vars /\ WF_vars(P_Probe)

\* C15: _get_unique_filename returns "<stem>_<k><ext>" for the smallest k >= 1
\* whose name is not in the directory; it fails with ValueError only when
\* every name for k = 1..10000 is taken; the loop never changes the
\* directory; and every call ends, with a name or with the error.
C15_UniqueNameProbe ==
    /\ []( /\ probe_counter \in 1..(MaxProbe + 1)
           /\ (probe_result # NoResult /\ ~IsErr(probe_result)) =>
                 /\ probe_result = suffixed_name(SongMp3, probe_counter)
                 /\ probe_counter \notin probe_taken
                 /\ \A k \in 1..(probe_counter - 1) : k \in probe_taken
           /\ IsErr(probe_result) =>
                 /\ probe_result = Err("ValueError")
                 /\ \A k \in 1..MaxProbe : k \in probe_taken
           /\ (probe_result # NoResult /\ Cardinality(probe_taken) <= MaxSuffix + 1) =>
                 probe_result = get_unique_filename(AsFiles(probe_taken), SongMp3) )
    /\ [][probe_result' # NoResult => probe_taken' = probe_taken]_vars
    /\ (probe_result = NoResult) ~> (probe_result # NoResult)

\* With song_1.mp3 .. song_10000.mp3 all present the call failed.
C15_Witness ==
    /\ IsErr(probe_result)
    /\ probe_counter = MaxProbe + 1
    /\ probe_taken = 1..MaxProbe

----------------------------------------------------------------------------
(* SpecStore: the managed storage under save, delete, create_show_directories *)
(* and copy_audio_file, in any order, starting empty                        *)

\* files of one asset directory
StoreMaxFiles == 2

StoreShowNames == { "A", "B" }
StoreShows ==
    { Show(n, << >>, DefaultSettings) : n \in StoreShowNames }
    \cup { Show("A", << Track(SongMp3, JoinPath(get_show_audio_directory("A"), SongMp3),
                              << Marker("a", 100) >>, None) >>, Settings(10, 50)) }
StoreSources == { [name |-> SongMp3, bytes |-> << b >>, exists |-> TRUE] : b \in Bytes }

Storage == [dirs |-> dirs, docs |-> docs, assets |-> assets]

\* The last call: the operation, the show name, what it returned, the show
\* saved (NoShow for the other operations) and the storage it found
StoreCall(op, name, result, saved, before) ==
    [op |-> op, name |-> name, result |-> result, saved |-> saved, before |-> before]

InitStore ==
    /\ EmptyStorage
    /\ IdleRepo /\ IdleTrack /\ IdleExport /\ IdleAsset /\ IdleController

\* ShowRepository.save(s)
S_Save(s, outcome) ==
    /\ dirs' = save_dirs_after(dirs, s, outcome)
    /\ docs' = save_docs_after(docs, s, outcome)
    /\ rpc' = "save"
    /\ loaded' = StoreCall("save", s.name, outcome, s, Storage)
    /\ UNCHANGED << show, assets, trackVars, assetVars, ctlVars, extVars >>

\* ShowRepository.delete(show_name)
S_Delete(show_name) ==
    /\ dirs' = delete_show_dirs(dirs, show_name)
    /\ docs' = delete_show_docs(dirs, docs, show_name)
    /\ assets' = delete_show_assets(dirs, assets, show_name)
    /\ rpc' = "delete"
    /\ loaded' = StoreCall("delete", show_name, delete_show_result(dirs, show_name),
                           NoShow, Storage)
    /\ UNCHANGED << show, trackVars, assetVars, ctlVars, extVars >>

\* FileManager.create_show_directories(show_name), as New Show calls it
S_CreateShowDirectories(show_name) ==
    /\ dirs' = create_show_directories(dirs, show_name)
    /\ rpc' = "create_show_directories"
    /\ loaded' = StoreCall("create_show_directories", show_name, "ok", NoShow, Storage)
    /\ UNCHANGED << show, docs, assets, trackVars, assetVars, ctlVars, extVars >>

\* AudioFileManager.copy_audio_file(source, show_name)
S_Copy(source, show_name) ==
    LET files == FilesOf(assets, show_name)
        r == copy_audio_file(files, source)
    IN /\ ~IsErr(r)
       /\ r.copies => Cardinality(DOMAIN files) < StoreMaxFiles
       /\ dirs' = mkdir_audio_directory(dirs, show_name)
       /\ assets' = Put(assets, show_name,
                        IF r.copies THEN Put(files, r.dest, source.bytes) ELSE files)
       /\ rpc' = "copy_audio_file"
       /\ loaded' = StoreCall("copy_audio_file", show_name, r.dest, NoShow, Storage)
       /\ UNCHANGED << show, docs, trackVars, assetVars, ctlVars, extVars >>

NextStore ==
    \/ \E s \in StoreShows, o \in SaveOutcomes : S_Save(s, o)
    \/ \E n \in StoreShowNames : S_Delete(n)
    \/ \E n \in StoreShowNames : S_CreateShowDirectories(n)
    \/ \E source \in StoreSources, n \in StoreShowNames : S_Copy(source, n)
SpecStore == InitStore /\ [][NextStore]_vars

Listed(ds, dc, n) == \E i \in 1..Len(list_shows(ds, dc)) : list_shows(ds, dc)[i] = n
LoadNotFound(dc, n) ==
    IF IsErr(load(dc, n)) THEN load(dc, n).error = "FileNotFoundError" ELSE FALSE

\* C16: in every storage state reached by save, delete,
\* create_show_directories and copy_audio_file, a name is in list_shows()
\* exactly when show_exists(name) and exactly when load(name) does not raise
\* FileNotFoundError; a show directory without its metadata file is not
\* listed; the list is strictly ascending (so without duplicates); and after
\* a successful save the show's name is listed.
C16_ListingConsistency ==
    /\ \A n \in StoreShowNames :
          /\ Listed(dirs, docs, n) <=> show_exists(docs, n)
          /\ show_exists(docs, n) <=> ~LoadNotFound(docs, n)
          /\ (get_show_directory(n) \in dirs /\ n \notin DOMAIN docs)
                => ~Listed(dirs, docs, n)
    /\ LET l == list_shows(dirs, docs)
       IN \A i \in 1..(Len(l) - 1) : NameRank(l[i]) < NameRank(l[i + 1])
    /\ (rpc = "save" /\ loaded.result = "ok") => Listed(dirs, docs, loaded.name)

\* Show B is saved and listed while show A has its directories and an asset
\* but no metadata file.
C16_Witness ==
    /\ list_shows(dirs, docs) = << "B" >>
    /\ get_show_audio_directory("A") \in dirs
    /\ "A" \in DOMAIN assets
    /\ rpc = "copy_audio_file"

\* What belongs to show n in a storage: its directories, its metadata
\* document and its assets
Subtree(st, n) ==
    [dirs |-> { d \in st.dirs : Len(d) >= 2 /\ d[2] = n },
     docs |-> IF n \in DOMAIN st.docs THEN << st.docs[n] >> ELSE << >>,
     assets |-> IF n \in DOMAIN st.assets THEN << st.assets[n] >> ELSE << >>]
NoSubtree == [dirs |-> {}, docs |-> << >>, assets |-> << >>]

\* C17: delete(name) returns false and leaves the storage unchanged whenever
\* exists(name) is false; otherwise it returns true and removes the show's
\* whole subtree, after which exists(name) is false, name is not listed,
\* load(name) raises FileNotFoundError and a second delete(name) returns
\* false; no other show's files are touched either way.
C17_DeleteByExistence ==
    rpc = "delete" =>
        LET n == loaded.name
            before == loaded.before
        IN /\ IF ~show_exists(before.docs, n)
                THEN loaded.result = FALSE /\ Storage = before
                ELSE /\ loaded.result = TRUE
                     /\ Subtree(Storage, n) = NoSubtree
                     /\ ~show_exists(docs, n)
                     /\ ~Listed(dirs, docs, n)
                     /\ LoadNotFound(docs, n)
                     /\ delete_show_result(dirs, n) = FALSE
           /\ \A m \in StoreShowNames \ { n } :
                 Subtree(Storage, m) = Subtree(before, m)

\* C18: a save that returns leaves the shows root, the show's directory and
\* its asset directory in place, writes only the metadata document of
\* show.name, changes no asset and nothing of any other show, stores the
\* saved show itself (load returns it, whatever document was there before:
\* the last writer wins, nothing is merged), and saving the same show again
\* changes nothing.
C18_SaveOverwritesOnlyMetadata ==
    (rpc = "save" /\ loaded.result = "ok") =>
        LET s == loaded.saved
            before == loaded.before
        IN /\ { get_shows_directory, get_show_directory(s.name),
                get_show_audio_directory(s.name) } \subseteq dirs
           /\ before.dirs \subseteq dirs
           /\ assets = before.assets
           /\ \A m \in StoreShowNames \ { s.name } :
                 Subtree(Storage, m) = Subtree(before, m)
           /\ DOMAIN docs = DOMAIN before.docs \cup { s.name }
           /\ docs[s.name] = Show_to_dict(s)
           /\ load(docs, s.name) = s
           /\ save_docs(docs, s) = docs
           /\ save_dirs(dirs, s) = dirs

\* Show A was saved over a different, earlier document of A while A held an
\* asset and show B was stored too.
C18_Witness ==
    /\ rpc = "save" /\ loaded.result = "ok" /\ loaded.name = "A"
    /\ "A" \in DOMAIN loaded.before.docs
    /\ loaded.before.docs["A"] # docs["A"]
    /\ loaded.before.docs["A"] # Corrupt
    /\ "A" \in DOMAIN assets /\ assets["A"] # << >>
    /\ "B" \in DOMAIN docs
    /\ Len(loaded.saved.tracks) = 1

----------------------------------------------------------------------------
(* SpecExport: export_show and import_show of one show, at paths inside and *)
(* outside the managed tree, over storage that already holds files          *)

\* tracks of the exported show
ExportMaxTracks == 1

ExportTracks ==
    { Track(SongMp3, JoinPath(ExternalAudioDir, SongMp3), ms, d) :
        ms \in { << >>, << Marker("a", 100), Marker("b", 0) >> }, d \in RepoDurations }
ExportShows ==
    { Show("A", ts, st) : ts \in SeqsUpTo(ExportTracks, ExportMaxTracks), st \in RepoSettings }

OutDir == << "out" >>
OutSubDir == << "out", "sub" >>
ShowJson == FileName(<< "show" >>, ".json")
MissingJson == FileName(<< "missing" >>, ".json")
ExportPaths ==
    { JoinPath(OutDir, ShowJson), JoinPath(OutSubDir, ShowJson), get_show_file_path("A") }
ImportPaths == ExportPaths \cup { JoinPath(OutDir, MissingJson) }
AudioSourceDirs == { None, Some(ExternalAudioDir), Some(get_show_audio_directory("B")) }

\* An audio file outside the managed tree
AudioContent(bytes) == [bytes |-> bytes]
IsAudioContent(c) == "bytes" \in DOMAIN c
AudioFilesOf(xf) == { << q, xf[q] >> : q \in { x \in DOMAIN xf : IsAudioContent(xf[x]) } }

\* What is outside the managed tree before the first call: nothing, an older
\* exported document, or an audio file in the default audio directory
PriorExternal ==
    { << >>,
      [q \in { JoinPath(OutDir, ShowJson) } |-> Show_to_dict(StaleShow("A"))],
      [q \in { JoinPath(Append(OutDir, "audio"), SongMp3) } |-> AudioContent(<< 1 >>)] }
\* What the managed tree holds before the first call: nothing, or show A
\* saved with one asset
PriorManaged ==
    { [dirs |-> {}, docs |-> EmptyDict, assets |-> EmptyDict],
      [dirs |-> create_show_directories({}, "A"),
       docs |-> [k \in { "A" } |-> Show_to_dict(StaleShow("A"))],
       assets |-> [k \in { "A" } |-> [f \in { SongMp3 } |-> << 0 >>]]] }

\* The last call: the operation, its path and audio_source_dir (None for
\* export), what it returned, and the files it found
ExportCall(op, path, dir, result) ==
    [op |-> op, path |-> path, dir |-> dir, result |-> result,
     before |-> [managed |-> Storage, ext_dirs |-> ext_dirs, ext_files |-> ext_files]]

InitExport ==
    /\ show \in ExportShows
    /\ \E m \in PriorManaged : dirs = m.dirs /\ docs = m.docs /\ assets = m.assets
    /\ ext_files \in PriorExternal
    /\ ext_dirs = UNION { Parents(q.dir) : q \in DOMAIN ext_files }
    /\ loaded = NoResult
    /\ rpc = "init"
    /\ IdleTrack /\ IdleAsset /\ IdleController

\* ShowRepository.export_show(show, export_path)
X_Export(export_path) ==
    /\ dirs' = export_dirs(dirs, show, export_path)
    /\ docs' = export_docs(docs, show, export_path)
    /\ ext_dirs' = export_ext_dirs(ext_dirs, show, export_path)
    /\ ext_files' = export_ext_files(ext_files, show, export_path)
    /\ rpc' = "exported"
    /\ loaded' = ExportCall("export", export_path, None, "ok")
    /\ UNCHANGED << show, assets, trackVars, assetVars, ctlVars >>

\* ShowRepository.import_show(import_path, audio_source_dir)
X_Import(import_path, audio_source_dir) ==
    /\ loaded' = ExportCall("import", import_path, audio_source_dir,
                            import_show(docs, ext_files, import_path, audio_source_dir))
    /\ rpc' = IF rpc = "exported" /\ loaded.path = import_path
              THEN "imported_after_export" ELSE "imported"
    /\ UNCHANGED << show, fsVars, extVars, trackVars, assetVars, ctlVars >>

NextExport ==
    \/ \E p \in ExportPaths : X_Export(p)
    \/ \E p \in ImportPaths, d \in AudioSourceDirs : X_Import(p, d)
SpecExport == InitExport /\ [][NextExport]_vars

\* C19: export_show to a path outside the managed tree, and import_show from
\* any path, leave every directory, metadata file and asset of the managed
\* tree as they were and copy no audio file anywhere; after the export the
\* files outside differ from those before in exactly one file, the document
\* at the chosen path.
C19_ExportImportFrame ==
    (rpc \in { "exported", "imported", "imported_after_export" }
        /\ (loaded.op = "export" => ~IsManagedDir(loaded.path.dir))) =>
        /\ Storage = loaded.before.managed
        /\ AudioFilesOf(ext_files) = AudioFilesOf(loaded.before.ext_files)
        /\ loaded.op = "export" =>
              /\ loaded.path \in DOMAIN ext_files
              /\ ext_files[loaded.path] = Show_to_dict(show)
              /\ DOMAIN ext_files = DOMAIN loaded.before.ext_files \cup { loaded.path }
              /\ \A q \in DOMAIN ext_files \ { loaded.path } :
                    ext_files[q] = loaded.before.ext_files[q]

\* A show with a track was exported to out/sub/show.json, whose directories
\* did not exist, while the managed tree held show A with an asset and an
\* audio file lay outside.
C19_Witness ==
    /\ rpc = "exported"
    /\ loaded.path = JoinPath(OutSubDir, ShowJson)
    /\ OutSubDir \notin loaded.before.ext_dirs /\ OutSubDir \in ext_dirs
    /\ Len(show.tracks) = 1
    /\ "A" \in DOMAIN assets /\ "A" \in DOMAIN docs
    /\ AudioFilesOf(ext_files) # {}

----------------------------------------------------------------------------
(* ui/dialogs.py: SettingsDialog, and _on_settings applying what it returns *)

\* QSpinBox.value() after the user asked for v: it stays within the range set
\* by setMinimum and setMaximum
QSpinBox_value(minimum, maximum, v) == Max(minimum, Min(maximum, v))
get_skip_increment_seconds(v) == QSpinBox_value(1, 60, v)
get_marker_nudge_increment_ms(v) == QSpinBox_value(10, 1000, v)

\* _on_settings assigns both fields of current_show.settings
on_settings(s, new_skip, new_nudge) ==
    [s EXCEPT !.settings.skip_increment_seconds = new_skip,
              !.settings.marker_nudge_increment_ms = new_nudge]

----------------------------------------------------------------------------
(* SpecCodec: Show.from_dict, load and import_show on documents with fields *)
(* missing, fields unknown to the codec, out-of-range settings and markers  *)
(* in any order                                                              *)

\* markers of a track of the document
CodecMaxMarkers == 2

Restrict(f, keys) == [x \in DOMAIN f \cap keys |-> f[x]]

CodecMarkerDicts ==
    LET full == { [name |-> "a", timestamp_ms |-> 100], [name |-> "b", timestamp_ms |-> 0],
                  [name |-> "a", timestamp_ms |-> 0] }
    IN full \cup { [timestamp_ms |-> 100], [name |-> "a"],
                   [name |-> "b", timestamp_ms |-> 0, color |-> "red"] }
CodecTrackDicts ==
    LET full == { [filename |-> SongMp3, markers |-> ms, duration_ms |-> 0] :
                    ms \in SeqsUpTo(CodecMarkerDicts, CodecMaxMarkers) }
    IN full \cup { Drop(t, "duration_ms") : t \in full }
            \cup { [markers |-> << >>], [filename |-> SongMp3],
                   [filename |-> SongMp3, markers |-> << >>, gain |-> 3] }
CodecSettingsDicts ==
    { EmptyDict, [skip_increment_seconds |-> 10, marker_nudge_increment_ms |-> 50],
      [skip_increment_seconds |-> 10], [marker_nudge_increment_ms |-> 50],
      [skip_increment_seconds |-> 10, marker_nudge_increment_ms |-> 50, theme |-> "dark"],
      [skip_increment_seconds |-> 0, marker_nudge_increment_ms |-> 50],
      [skip_increment_seconds |-> 10, marker_nudge_increment_ms |-> -1] }
CodecDocuments ==
    LET full == { [show_name |-> "A", settings |-> st, tracks |-> ts] :
                    st \in CodecSettingsDicts,
                    ts \in { << >> } \cup { << t >> : t \in CodecTrackDicts } }
    IN full \cup { Drop(d, "settings") : d \in full }
            \cup { Drop(d, "show_name") : d \in full }
            \cup { Drop(d, "tracks") : d \in full }
            \cup { Put(d, "version", 2) : d \in full }

\* The document without the fields the codec does not know
MarkerKeys == { "name", "timestamp_ms" }
TrackKeys == { "filename", "markers", "duration_ms" }
SettingsKeys == { "skip_increment_seconds", "marker_nudge_increment_ms" }
ShowKeys == { "show_name", "settings", "tracks" }
StripTrack(t) ==
    LET r == Restrict(t, TrackKeys)
    IN IF "markers" \notin DOMAIN r THEN r
       ELSE Put(r, "markers", [i \in 1..Len(r["markers"]) |-> Restrict(r["markers"][i], MarkerKeys)])
StripDocument(d) ==
    LET r == Restrict(d, ShowKeys)
        r1 == IF "settings" \notin DOMAIN r THEN r
              ELSE Put(r, "settings", Restrict(r["settings"], SettingsKeys))
    IN IF "tracks" \notin DOMAIN r1 THEN r1
       ELSE Put(r1, "tracks", [i \in 1..Len(r1["tracks"]) |-> StripTrack(r1["tracks"][i])])

\* The document under test is the metadata file of show A and also the
\* file out/show.json outside the managed tree
CodecDocument == docs["A"]
InitCodec ==
    /\ \E d \in CodecDocuments :
          /\ docs = [k \in { "A" } |-> d]
          /\ ext_files = [q \in { JoinPath(OutDir, ShowJson) } |-> d]
    /\ dirs = create_show_directories({}, "A")
    /\ assets = EmptyDict
    /\ ext_dirs = { OutDir }
    /\ show = NoShow
    /\ loaded = NoResult
    /\ rpc = "init"
    /\ IdleTrack /\ IdleAsset /\ IdleController

\* Show.from_dict(data, audio_base_path)
D_FromDict ==
    /\ loaded' = Show_from_dict(CodecDocument, ExternalAudioDir)
    /\ rpc' = "from_dict"
    /\ UNCHANGED << show, fsVars, extVars, trackVars, assetVars, ctlVars >>

\* ShowRepository.load("A")
D_Load ==
    /\ loaded' = load(docs, "A")
    /\ rpc' = "load"
    /\ UNCHANGED << show, fsVars, extVars, trackVars, assetVars, ctlVars >>

\* ShowRepository.import_show(out/show.json)
D_Import ==
    /\ loaded' = import_show(docs, ext_files, JoinPath(OutDir, ShowJson), None)
    /\ rpc' = "import_show"
    /\ UNCHANGED << show, fsVars, extVars, trackVars, assetVars, ctlVars >>

\* Show(name="A"), as _on_new_show constructs it: the settings are Settings()
D_NewShow ==
    /\ loaded' = Show("A", << >>, DefaultSettings)
    /\ rpc' = "new_show"
    /\ UNCHANGED << show, fsVars, extVars, trackVars, assetVars, ctlVars >>

\* _on_settings on the show just constructed or decoded: the user asks the
\* two spin boxes for any values and accepts the dialog
SpinBoxRequests == { 0, 5, 2000 }
D_OnSettings(skip, nudge) ==
    /\ rpc # "init" /\ ~IsErr(loaded)
    /\ loaded' = on_settings(loaded, get_skip_increment_seconds(skip),
                             get_marker_nudge_increment_ms(nudge))
    /\ rpc' = "settings"
    /\ UNCHANGED << show, fsVars, extVars, trackVars, assetVars, ctlVars >>

NextCodec ==
    \/ D_FromDict \/ D_Load \/ D_Import \/ D_NewShow
    \/ \E skip, nudge \in SpinBoxRequests : D_OnSettings(skip, nudge)
SpecCodec == InitCodec /\ [][NextCodec]_vars

Decoded == rpc \in { "from_dict", "load", "import_show" }
\* the audio_base_path the last decoding was given
DecodedBase ==
    CASE rpc = "load" -> get_show_audio_directory("A")
      [] rpc = "import_show" -> Append(OutDir, "audio")
      [] OTHER -> ExternalAudioDir

\* C21: decoding fails, and returns no Show, whenever the document lacks
\* show_name or tracks, a track lacks filename or markers, or a marker lacks
\* name or timestamp_ms.
C21_RequiredFields ==
    LET d == CodecDocument
        tracks == Get(d, "tracks", << >>)
        markers(t) == Get(t, "markers", << >>)
        lacks ==
            \/ "show_name" \notin DOMAIN d
            \/ "tracks" \notin DOMAIN d
            \/ \E i \in 1..Len(tracks) :
                  \/ "filename" \notin DOMAIN tracks[i]
                  \/ "markers" \notin DOMAIN tracks[i]
                  \/ \E j \in 1..Len(markers(tracks[i])) :
                        \/ "name" \notin DOMAIN markers(tracks[i])[j]
                        \/ "timestamp_ms" \notin DOMAIN markers(tracks[i])[j]
    IN (Decoded /\ lacks) => IsErr(loaded)

\* C22: decoding a document with fields the codec does not know, at top
\* level, in settings, in a track or in a marker, gives what decoding the
\* document without them gives; a missing settings object or settings field
\* decodes to skip_increment_seconds = 5 and marker_nudge_increment_ms =
\* 100; a missing duration_ms decodes to no duration.
C22_TolerantDecoding ==
    Decoded =>
        LET d == CodecDocument
            st == Get(d, "settings", EmptyDict)
        IN /\ loaded = Show_from_dict(StripDocument(d), DecodedBase)
           /\ ~IsErr(loaded) =>
                 /\ "skip_increment_seconds" \notin DOMAIN st
                       => loaded.settings.skip_increment_seconds = 5
                 /\ "marker_nudge_increment_ms" \notin DOMAIN st
                       => loaded.settings.marker_nudge_increment_ms = 100
                 /\ \A i \in 1..Len(loaded.tracks) :
                       "duration_ms" \notin DOMAIN d["tracks"][i]
                           => loaded.tracks[i].duration_ms = None

\* A document with an unknown top-level field, an unknown settings field and
\* a track whose marker carries an unknown field and which has no
\* duration_ms was decoded by load.
C22_Witness ==
    /\ rpc = "load" /\ ~IsErr(loaded)
    /\ "version" \in DOMAIN CodecDocument
    /\ "theme" \in DOMAIN CodecDocument["settings"]
    /\ Len(loaded.tracks) = 1
    /\ loaded.tracks[1].duration_ms = None
    /\ Len(loaded.tracks[1].markers) = 1
    /\ "color" \in DOMAIN CodecDocument["tracks"][1]["markers"][1]

\* C23: every show obtained by construction, by decoding (Show.from_dict,
\* load, import_show) or by the controller's settings update has
\* skip_increment_seconds > 0 and marker_nudge_increment_ms > 0, and
\* decoding, which constructs Settings from the document's values, fails
\* when either value is <= 0.
C23_SettingsPositive ==
    /\ (rpc # "init" /\ ~IsErr(loaded)) =>
          /\ loaded.settings.skip_increment_seconds > 0
          /\ loaded.settings.marker_nudge_increment_ms > 0
    /\ Decoded =>
          LET st == Get(CodecDocument, "settings", EmptyDict)
          IN (Get(st, "skip_increment_seconds", 1) <= 0
                \/ Get(st, "marker_nudge_increment_ms", 1) <= 0) => IsErr(loaded)

\* A document with marker_nudge_increment_ms = -1 was refused by load.
C23_WitnessRefused ==
    /\ rpc = "load" /\ IsErr(loaded)
    /\ CodecDocument = [show_name |-> "A", tracks |-> << >>,
                        settings |-> [skip_increment_seconds |-> 10,
                                      marker_nudge_increment_ms |-> -1]]

\* A decoded show went through the settings dialog, where the user asked for
\* 0 in the skip box: the show holds the box's minimum.
C23_Witness ==
    /\ rpc = "settings"
    /\ loaded.settings.skip_increment_seconds = 1
    /\ loaded.settings.marker_nudge_increment_ms = 1000
    /\ Len(loaded.tracks) = 1

\* C24: every Show returned by decoding has, in each track, its markers in
\* ascending timestamp order and no two markers of the same name.
C24_DecodedTrackInvariants ==
    (Decoded /\ ~IsErr(loaded)) =>
        \A i \in 1..Len(loaded.tracks) :
            IsSorted(loaded.tracks[i].markers) /\ UniqueNames(loaded.tracks[i].markers)

----------------------------------------------------------------------------
(* app_controller.py: AppController                                        *)

auto_save_debounce_ms == 500

HasShow == current_show # NoShow

\* Show.get_track(self._current_track_index) is not None
HasTrack ==
    /\ HasShow
    /\ current_track_index >= 0
    /\ current_track_index < Len(current_show.tracks)

CurTrack == current_show.tracks[current_track_index + 1]

WithMarkers(s, index, markers) ==
    [s EXCEPT !.tracks[index + 1].markers = markers]

\* track.audio_path.exists()
AudioExists(fs_assets, path) ==
    /\ Len(path.dir) = 3
    /\ path.dir[1] = "shows"
    /\ path.dir[3] = "audio"
    /\ path.dir[2] \in DOMAIN fs_assets
    /\ path.name \in DOMAIN fs_assets[path.dir[2]]

\* The rows MarkerList.set_markers builds for a track
Rows(markers) ==
    [i \in 1..Len(markers) |->
        [name |-> markers[i].name, timestamp_ms |-> markers[i].timestamp_ms]]

\* MarkerList.update_marker(index, name, timestamp_ms)
update_marker(rows, index, name, timestamp_ms) ==
    IF 0 <= index /\ index < Len(rows)
    THEN [rows EXCEPT ![index + 1] = [name |-> name, timestamp_ms |-> timestamp_ms]]
    ELSE rows

\* QListWidget.currentRow() after takeItem(index)
RowAfterTake(selected, index, count_after) ==
    IF count_after = 0 THEN -1
    ELSE IF selected > index THEN selected - 1
    ELSE IF selected = index THEN Min(index, count_after - 1)
    ELSE selected

\* str.lower() on the marker names of the model
LowerName(n) == IF n = "A" THEN "a" ELSE n

\* The interval QTimer.start is given by _trigger_auto_save, whether or not
\* the timer is already running
restart_interval_keep_running(active, remaining) ==
    IF active THEN remaining ELSE auto_save_debounce_ms
restart_interval(active, remaining) == auto_save_debounce_ms

\* _trigger_auto_save with a show loaded
TriggerAutoSave ==
    /\ is_modified' = TRUE
    /\ timer_active' = TRUE
    /\ timer_remaining' = restart_interval(timer_active, timer_remaining)
    /\ notified_is_current' = TRUE
    /\ burst_restarted' = timer_active
    /\ since_notify' = 0
    /\ saves_since_notify' = 0

NoTrigger ==
    UNCHANGED << timer_active, timer_remaining, burst_restarted, since_notify,
                 saves_since_notify >>

\* _on_track_selected(index) as run from inside another handler on `s`
SelectTrackUi(s, index, fs_assets) ==
    IF AudioExists(fs_assets, s.tracks[index + 1].audio_path)
    THEN /\ ui_markers' = Rows(s.tracks[index + 1].markers)
         /\ ui_selected' = -1
    ELSE UNCHANGED << ui_markers, ui_selected >>

\* _on_new_show: the unsaved-changes prompt, if any, is answered "discard"
\* and the dialog is accepted with a non-blank name
C_OnNewShow(show_name) ==
    /\ current_show' = Show(show_name, << >>, DefaultSettings)
    /\ current_track_index' = -1
    /\ is_modified' = TRUE
    /\ dirs' = create_show_directories(dirs, show_name)
    /\ notified_is_current' = FALSE
    /\ last_event' = OtherEvent
    /\ NoTrigger
    /\ UNCHANGED << docs, assets, ui_markers, ui_selected,
                    trackVars, repoVars, assetVars, extVars >>

\* _on_open_show and _load_show on a metadata file of the shows directory
C_OnOpenShow(show_name) ==
    /\ show_exists(docs, show_name)
    /\ LET r == load(docs, show_name)
       IN IF IsErr(r)
          THEN /\ last_event' = OtherEvent
               /\ UNCHANGED << current_show, current_track_index, is_modified,
                               notified_is_current, ui_markers, ui_selected >>
          ELSE /\ current_show' = r
               /\ is_modified' = FALSE
               /\ notified_is_current' = FALSE
               /\ IF r.tracks # << >>
                  THEN /\ current_track_index' = 0
                       /\ SelectTrackUi(r, 0, assets)
                       /\ last_event' = OtherEvent
                  ELSE /\ current_track_index' = -1
                       /\ last_event' = OtherEvent
                       /\ UNCHANGED << ui_markers, ui_selected >>
    /\ NoTrigger
    /\ UNCHANGED << fsVars, trackVars, repoVars, assetVars, extVars >>

\* _on_save_show and _save_show
C_OnSaveShow(outcome) ==
    /\ HasShow
    /\ dirs' = save_dirs_after(dirs, current_show, outcome)
    /\ docs' = save_docs_after(docs, current_show, outcome)
    /\ is_modified' = IF outcome = "ok" THEN FALSE ELSE is_modified
    /\ last_event' = [Event("save_show", outcome = "ok",
                            IF outcome = "ok" THEN "info" ELSE "error")
                        EXCEPT !.saved_notified = notified_is_current,
                               !.was_modified = is_modified]
    /\ NoTrigger
    /\ UNCHANGED << current_show, current_track_index, notified_is_current, assets,
                    ui_markers, ui_selected, trackVars, repoVars, assetVars, extVars >>

\* _add_audio_file(file_path), on a show of fewer than max_tracks tracks
C_AddAudioFileUpTo(source, max_tracks) ==
    /\ HasShow
    /\ LET files == FilesOf(assets, current_show.name)
           r == copy_audio_file(files, source)
       IN IF ~is_supported_format(source.name) \/ IsErr(r)
          THEN /\ last_event' = OtherEvent
               /\ dirs' = IF source.exists /\ is_supported_format(source.name)
                          THEN mkdir_audio_directory(dirs, current_show.name) ELSE dirs
               /\ NoTrigger
               /\ UNCHANGED << current_show, is_modified, assets, notified_is_current >>
          ELSE /\ Len(current_show.tracks) < max_tracks
               /\ dirs' = mkdir_audio_directory(dirs, current_show.name)
               /\ assets' = Put(assets, current_show.name,
                                IF r.copies THEN Put(files, r.dest, source.bytes) ELSE files)
               /\ current_show' =
                    [current_show EXCEPT !.tracks =
                        Append(@, Track(source.name,
                                        JoinPath(get_show_audio_directory(current_show.name),
                                                 r.dest),
                                        << >>, None))]
               /\ TriggerAutoSave
               /\ last_event' = OtherEvent
    /\ UNCHANGED << current_track_index, docs, ui_markers, ui_selected,
                    trackVars, repoVars, assetVars, extVars >>

C_AddAudioFile(source) == C_AddAudioFileUpTo(source, MaxCtlTracks)

\* Path.unlink() of an asset of the managed tree
unlink(fs_assets, path) ==
    [fs_assets EXCEPT ![path.dir[2]] = Drop(@, path.name)]

\* _on_remove_track(index), confirmed; unlink either removes the file or
\* raises OSError, which the handler reports without calling
\* _trigger_auto_save
RemoveOutcomes == { "ok", "unlink_failed" }
C_OnRemoveTrack(index, outcome) ==
    /\ HasShow
    /\ 0 <= index /\ index < Len(current_show.tracks)
    /\ LET removed == current_show.tracks[index + 1]
           stopped == IF current_track_index = index THEN -1 ELSE current_track_index
           exists == AudioExists(assets, removed.audio_path)
       IN /\ current_show' = [current_show EXCEPT !.tracks = RemoveAt(@, index + 1)]
          /\ current_track_index' = IF stopped > index THEN stopped - 1 ELSE stopped
          /\ IF stopped = -1
             THEN ui_markers' = << >> /\ ui_selected' = -1
             ELSE UNCHANGED << ui_markers, ui_selected >>
          /\ (outcome = "unlink_failed") => exists
          /\ IF outcome = "ok"
             THEN /\ assets' = IF exists THEN unlink(assets, removed.audio_path) ELSE assets
                  /\ TriggerAutoSave
                  /\ last_event' = Event("remove_track", TRUE, "none")
             ELSE /\ NoTrigger
                  /\ last_event' = Event("remove_track", FALSE, "error")
                  /\ UNCHANGED << assets, is_modified, notified_is_current >>
    /\ UNCHANGED << dirs, docs, trackVars, repoVars, assetVars, extVars >>

\* _on_save_show_as: get_text_input returns a name other than the current
\* one; the show is renamed in place and _save_show runs
C_OnSaveShowAs(new_name, outcome) ==
    /\ HasShow
    /\ new_name # "" /\ new_name # current_show.name
    /\ LET renamed == [current_show EXCEPT !.name = new_name]
       IN /\ current_show' = renamed
          /\ dirs' = save_dirs_after(dirs, renamed, outcome)
          /\ docs' = save_docs_after(docs, renamed, outcome)
    /\ is_modified' = IF outcome = "ok" THEN FALSE ELSE is_modified
    /\ last_event' = [Event("save_show_as", outcome = "ok",
                            IF outcome = "ok" THEN "info" ELSE "error")
                        EXCEPT !.saved_notified = notified_is_current,
                               !.was_modified = is_modified]
    /\ NoTrigger
    /\ UNCHANGED << current_track_index, notified_is_current, assets,
                    ui_markers, ui_selected, trackVars, repoVars, assetVars, extVars >>

\* _on_track_selected(index), from a click on a row of the track sidebar
C_OnTrackSelected(index) ==
    /\ HasShow
    /\ 0 <= index /\ index < Len(current_show.tracks)
    /\ current_track_index' = index
    /\ SelectTrackUi(current_show, index, assets)
    /\ last_event' = OtherEvent
    /\ NoTrigger
    /\ UNCHANGED << current_show, is_modified, notified_is_current, fsVars,
                    trackVars, repoVars, assetVars, extVars >>

\* A click on row `index` of the marker list (QListWidget.currentRow)
C_MarkerRowSelected(index) ==
    /\ 0 <= index /\ index < Len(ui_markers)
    /\ ui_selected # index
    /\ ui_selected' = index
    /\ last_event' = OtherEvent
    /\ NoTrigger
    /\ UNCHANGED << current_show, current_track_index, is_modified, notified_is_current,
                    ui_markers, fsVars, trackVars, repoVars, assetVars, extVars >>

\* _on_add_marker and _add_marker_to_track: AddMarkerDialog accepts a
\* non-blank name that differs, ignoring case, from every existing name
C_OnAddMarker(name, position_ms, max_markers) ==
    /\ HasTrack
    /\ ~IsBlank(name)
    /\ \A i \in 1..Len(CurTrack.markers) :
          LowerName(CurTrack.markers[i].name) # LowerName(name)
    /\ Len(CurTrack.markers) < max_markers
    /\ IF add_marker_raises(CurTrack.markers, Marker(name, position_ms))
       THEN /\ last_event' = OtherEvent
            /\ NoTrigger
            /\ UNCHANGED << current_show, is_modified, ui_markers, notified_is_current >>
       ELSE /\ current_show' =
                 WithMarkers(current_show, current_track_index,
                             add_marker(CurTrack.markers, Marker(name, position_ms)))
            /\ ui_markers' = Append(ui_markers, [name |-> name, timestamp_ms |-> position_ms])
            /\ TriggerAutoSave
            /\ last_event' = OtherEvent
    /\ UNCHANGED << current_track_index, ui_selected, fsVars,
                    trackVars, repoVars, assetVars, extVars >>

\* _on_edit_marker(index), index being the selected row; EditMarkerDialog
\* accepts a non-blank name
C_OnEditMarker(new_name) ==
    /\ HasTrack
    /\ 0 <= ui_selected /\ ui_selected < Len(CurTrack.markers)
    /\ ~IsBlank(new_name)
    /\ IF edit_marker_rejected(CurTrack.markers, ui_selected, new_name)
       THEN /\ last_event' = OtherEvent
            /\ NoTrigger
            /\ UNCHANGED << current_show, is_modified, ui_markers, notified_is_current >>
       ELSE /\ current_show' =
                 WithMarkers(current_show, current_track_index,
                             edit_marker(CurTrack.markers, ui_selected, new_name))
            /\ ui_markers' = update_marker(ui_markers, ui_selected, new_name,
                                           CurTrack.markers[ui_selected + 1].timestamp_ms)
            /\ TriggerAutoSave
            /\ last_event' = OtherEvent
    /\ UNCHANGED << current_track_index, ui_selected, fsVars,
                    trackVars, repoVars, assetVars, extVars >>

\* _on_delete_marker(index), index being the selected row, confirmed
C_OnDeleteMarker ==
    /\ HasTrack
    /\ 0 <= ui_selected /\ ui_selected < Len(CurTrack.markers)
    /\ current_show' =
         WithMarkers(current_show, current_track_index,
                     remove_marker(CurTrack.markers, CurTrack.markers[ui_selected + 1].name))
    /\ ui_markers' = IF ui_selected < Len(ui_markers)
                     THEN RemoveAt(ui_markers, ui_selected + 1) ELSE ui_markers
    /\ ui_selected' = IF ui_selected < Len(ui_markers)
                      THEN RowAfterTake(ui_selected, ui_selected, Len(ui_markers) - 1)
                      ELSE ui_selected
    /\ TriggerAutoSave
    /\ last_event' = OtherEvent
    /\ UNCHANGED << current_track_index, fsVars, trackVars, repoVars, assetVars, extVars >>

\* The timestamp _nudge_selected_marker gives the marker: moved by the
\* increment, clamped to 0 and, when the player knows it, to the duration
nudged_timestamp_unclamped(timestamp_ms, direction, nudge_increment_ms, duration_ms) ==
    timestamp_ms + direction * nudge_increment_ms
nudged_timestamp(timestamp_ms, direction, nudge_increment_ms, duration_ms) ==
    LET moved == Max(0, timestamp_ms + direction * nudge_increment_ms)
    IN IF duration_ms > 0 THEN Min(moved, duration_ms) ELSE moved

\* _nudge_selected_marker(direction); duration_ms is what
\* AudioPlayer.get_duration_ms() returns (0: not loaded or unknown)
C_NudgeSelectedMarker(direction, duration_ms, max_timestamp_ms) ==
    /\ HasTrack
    /\ 0 <= ui_selected /\ ui_selected < Len(CurTrack.markers)
    /\ LET m == CurTrack.markers[ui_selected + 1]
           t == nudged_timestamp(m.timestamp_ms, direction,
                                 current_show.settings.marker_nudge_increment_ms,
                                 duration_ms)
       IN /\ t <= max_timestamp_ms
          /\ current_show' =
               WithMarkers(current_show, current_track_index,
                           [CurTrack.markers EXCEPT ![ui_selected + 1].timestamp_ms = t])
          /\ ui_markers' = update_marker(ui_markers, ui_selected, m.name, t)
          /\ last_event' = [Event("nudge_marker", TRUE, "none")
                              EXCEPT !.direction = direction,
                                     !.from_ms = m.timestamp_ms,
                                     !.duration_ms = duration_ms]
    /\ TriggerAutoSave
    /\ UNCHANGED << current_track_index, ui_selected, fsVars,
                    trackVars, repoVars, assetVars, extVars >>

\* _on_settings: the dialog is accepted with values of its spin boxes
C_OnSettings(new_skip, new_nudge) ==
    /\ HasShow
    /\ current_show' = on_settings(current_show, new_skip, new_nudge)
    /\ IF current_show'.settings # current_show.settings
       THEN /\ TriggerAutoSave
            /\ last_event' = OtherEvent
       ELSE /\ NoTrigger
            /\ last_event' = OtherEvent
            /\ UNCHANGED << is_modified, notified_is_current >>
    /\ UNCHANGED << current_track_index, ui_markers, ui_selected, fsVars,
                    trackVars, repoVars, assetVars, extVars >>

\* The modified flag after _on_auto_save tried to save
auto_save_modified(ok, was_modified) == IF ok THEN FALSE ELSE was_modified

\* Whether _on_auto_save, once the timer fired, goes on to call save: it
\* returns early only when there is no current show
auto_save_attempts_when_modified(s, modified) == s # NoShow /\ modified
auto_save_attempts(s, modified) == s # NoShow

\* _on_auto_save: the single-shot timer's timeout
C_OnAutoSave(outcome) ==
    /\ timer_active
    /\ timer_remaining = 0
    /\ timer_active' = FALSE
    /\ timer_remaining' = 0
    /\ IF ~auto_save_attempts(current_show, is_modified)
       THEN /\ last_event' = OtherEvent
            /\ UNCHANGED << dirs, docs, is_modified, saves_since_notify >>
       ELSE /\ dirs' = save_dirs_after(dirs, current_show, outcome)
            /\ docs' = save_docs_after(docs, current_show, outcome)
            /\ is_modified' = auto_save_modified(outcome = "ok", is_modified)
            /\ saves_since_notify' = saves_since_notify + 1
            /\ last_event' = [Event("auto_save", outcome = "ok", "none")
                                EXCEPT !.saved_notified = notified_is_current,
                                       !.was_modified = is_modified]
    /\ UNCHANGED << current_show, current_track_index, notified_is_current,
                    burst_restarted, since_notify, assets, ui_markers, ui_selected,
                    trackVars, repoVars, assetVars, extVars >>

\* Time passes while the timer runs, up to the moment it is due
C_Tick ==
    /\ timer_active
    /\ timer_remaining > 0
    /\ LET dt == Min(TickMs, timer_remaining)
       IN /\ timer_remaining' = timer_remaining - dt
          /\ since_notify' = since_notify + dt
    /\ last_event' = OtherEvent
    /\ UNCHANGED << current_show, current_track_index, is_modified, notified_is_current,
                    burst_restarted, saves_since_notify, timer_active,
                    ui_markers, ui_selected, fsVars, trackVars, repoVars, assetVars, extVars >>

----------------------------------------------------------------------------
(* Spec: the controller from start-up, driven by the user and the timer *)

CtlSources == { [name |-> SongMp3, bytes |-> << 1 >>, exists |-> TRUE],
                [name |-> NotesTxt, bytes |-> << >>, exists |-> TRUE] }
CtlShowNames == { "A" }
CtlMarkerNames == { "a" }
CtlPositions == { 0 }
CtlDurations == { 0, 100 }
CtlSkips == { 5, 10 }
CtlNudges == { 100 }
CtlSaveOutcomes == { "ok", "open_failed" }

Init == IdleController /\ EmptyStorage /\ IdleTrack /\ IdleExport /\ IdleRepo /\ IdleAsset

Next ==
    \/ \E n \in CtlShowNames : C_OnNewShow(n)
    \/ \E n \in CtlShowNames : C_OnOpenShow(n)
    \/ \E o \in CtlSaveOutcomes : C_OnSaveShow(o)
    \/ \E source \in CtlSources : C_AddAudioFile(source)
    \/ \E i \in 0..(MaxCtlTracks - 1) : C_OnTrackSelected(i)
    \/ \E i \in 0..(MaxCtlMarkers - 1) : C_MarkerRowSelected(i)
    \/ \E n \in CtlMarkerNames, t \in CtlPositions : C_OnAddMarker(n, t, MaxCtlMarkers)
    \/ \E n \in CtlMarkerNames : C_OnEditMarker(n)
    \/ C_OnDeleteMarker
    \/ \E d \in { -1, 1 }, dur \in CtlDurations :
          C_NudgeSelectedMarker(d, dur, MaxTimestampMs)
    \/ \E sk \in CtlSkips, nu \in CtlNudges : C_OnSettings(sk, nu)
    \/ \E o \in CtlSaveOutcomes : C_OnAutoSave(o)
    \/ C_Tick

Spec == Init /\ [][Next]_vars

\* The Qt event loop runs a due timer and lets time pass while one is running
SpecLive ==
    /\ Spec
    /\ WF_vars(C_Tick)
    /\ WF_vars(\E o \in CtlSaveOutcomes : C_OnAutoSave(o))

\* C5: a burst of change notifications, each less than the debounce interval
\* after the one before, is followed by exactly one auto-save. While the timer
\* runs no auto-save has happened since the last notification, and the timer
\* is due exactly one debounce interval after that notification; an auto-save
\* happens exactly one interval after the last notification and is the only
\* one since; and unless notifications keep arriving the auto-save does happen.
C5_DebounceCoalescing ==
    /\ [](/\ saves_since_notify <= 1
          /\ timer_active =>
                /\ saves_since_notify = 0
                /\ since_notify + timer_remaining = auto_save_debounce_ms
          /\ last_event.kind = "auto_save" =>
                /\ since_notify = auto_save_debounce_ms
                /\ saves_since_notify = 1)
    /\ \/ []<>(~timer_active)
       \/ []<>(timer_active /\ since_notify = 0)

\* An auto-save has just run, after a notification that restarted a timer
\* which was already running
C5_Witness ==
    /\ last_event.kind = "auto_save"
    /\ last_event.ok
    /\ burst_restarted
    /\ saves_since_notify = 1
    /\ docs # EmptyDict

\* C6 (as stated): after every firing of the auto-save timer the timer is not
\* armed and no dialog was shown; if the save failed the show is marked
\* modified, and if it succeeded the show is not marked modified.
C6_AutoSaveOutcome ==
    last_event.kind = "auto_save" =>
        /\ ~timer_active
        /\ last_event.dialog = "none"
        /\ (last_event.ok => ~is_modified)
        /\ (~last_event.ok => is_modified)

\* C7 (as stated): after a successful Save Show the auto-save timer is not
\* armed, so no auto-save follows until the next change notification.
C7_FlushClearsTimer ==
    (last_event.kind = "save_show" /\ last_event.ok) => ~timer_active

\* C8 (as stated): the show an auto-save writes is the Show object that was
\* current at the most recent change notification.
C8_SavesNotifiedShow ==
    last_event.kind = "auto_save" => last_event.saved_notified

\* C30: once a change notification has armed the timer, the timer stops
\* being armed only in a step that attempts an auto-save; an auto-save that
\* succeeds has written the current show; and unless change notifications
\* keep arriving, an armed timer is followed by an auto-save attempt.
C30_PendingAutoSaveNotDropped ==
    /\ [][(timer_active /\ ~timer_active') => last_event'.kind = "auto_save"]_vars
    /\ []((last_event.kind = "auto_save" /\ last_event.ok) =>
            IF HasShow /\ show_exists(docs, current_show.name)
            THEN docs[current_show.name] = Show_to_dict(current_show) ELSE FALSE)
    /\ \/ (timer_active ~> (last_event.kind = "auto_save"))
       \/ []<>(timer_active /\ since_notify = 0)

\* The timer fired and the show was auto-saved although Save Show had
\* already saved it since the change: the pending auto-save was not dropped.
C30_Witness ==
    /\ last_event.kind = "auto_save"
    /\ last_event.ok
    /\ ~last_event.was_modified
    /\ ~timer_active
    /\ Len(current_show.tracks) = 1

----------------------------------------------------------------------------
(* SpecMarkers: the controller's marker operations on the tracks of a show  *)

\* markers of a track and the largest timestamp a nudge may reach
MaxListMarkers == 2
MaxListTimestampMs == 200

ListMarkerNames == { "a", "b" }
ListPositions == { 0, 100 }
ListSources == { [name |-> SongMp3, bytes |-> << 1 >>, exists |-> TRUE] }
ListDurations == { 0, 100 }

InitMarkers == IdleController /\ EmptyStorage /\ IdleTrack /\ IdleExport /\ IdleRepo /\ IdleAsset

NextMarkers ==
    \/ C_OnNewShow("A")
    \/ \E source \in ListSources : C_AddAudioFile(source)
    \/ \E i \in 0..(MaxCtlTracks - 1) : C_OnTrackSelected(i)
    \/ \E i \in 0..(MaxListMarkers - 1) : C_MarkerRowSelected(i)
    \/ \E n \in ListMarkerNames, t \in ListPositions : C_OnAddMarker(n, t, MaxListMarkers)
    \/ \E n \in ListMarkerNames : C_OnEditMarker(n)
    \/ C_OnDeleteMarker
    \/ \E d \in { -1, 1 }, dur \in ListDurations :
          C_NudgeSelectedMarker(d, dur, MaxListTimestampMs)

SpecMarkers == InitMarkers /\ [][NextMarkers]_vars

\* C10 (as stated): in every state reached through add, delete, rename and
\* nudge, the markers of every track are sorted ascending by timestamp_ms.
C10_MarkersAlwaysSorted ==
    HasShow => \A i \in 1..Len(current_show.tracks) :
                  IsSorted(current_show.tracks[i].markers)

ValidMarker(m) == m.timestamp_ms >= 0 /\ ~IsBlank(m.name)

\* C13: every marker of the current show has timestamp_ms >= 0 and a name that
\* is not empty or whitespace-only; Marker(name, timestamp_ms) fails exactly
\* when the name is blank or the timestamp negative; and a nudge leaves the
\* marker at 0 when the move would take it below 0, and never beyond the
\* duration when the player reports a positive one.
C13_MarkerValues ==
    /\ HasShow => \A i \in 1..Len(current_show.tracks) :
                     \A j \in 1..Len(current_show.tracks[i].markers) :
                        ValidMarker(current_show.tracks[i].markers[j])
    /\ \A n \in ListMarkerNames \cup BlankNames, t \in ListPositions \cup { -1 } :
          IsErr(Marker(n, t)) <=> (IsBlank(n) \/ t < 0)
    /\ last_event.kind = "nudge_marker" =>
          LET t == CurTrack.markers[ui_selected + 1].timestamp_ms
              moved == last_event.from_ms
                         + last_event.direction * current_show.settings.marker_nudge_increment_ms
          IN /\ moved < 0 => t = 0
             /\ last_event.duration_ms > 0 => t <= last_event.duration_ms
             /\ (moved >= 0 /\ (last_event.duration_ms = 0 \/ moved <= last_event.duration_ms))
                   => t = moved

\* A marker already at 0, on a track of two markers, was nudged backward and
\* stayed at 0.
C13_Witness ==
    /\ last_event.kind = "nudge_marker"
    /\ last_event.direction = -1
    /\ last_event.from_ms = 0
    /\ CurTrack.markers[ui_selected + 1].timestamp_ms = 0
    /\ Len(CurTrack.markers) = 2

\* C27 (as stated): while a track is selected and shown, row i of the marker
\* list holds the name and the timestamp of track.markers[i], for every i,
\* after any sequence of add, delete, rename and nudge.
C27_MarkerListMirrorsModel ==
    (HasTrack /\ AudioExists(assets, CurTrack.audio_path)) =>
        ui_markers = Rows(CurTrack.markers)

----------------------------------------------------------------------------
(* SpecTracks: tracks added to and removed from a show, and the show saved  *)

\* tracks of the show
MaxLibTracks == 2

\* Two different recordings that are both called song.mp3
LibSources == { [name |-> SongMp3, bytes |-> << b >>, exists |-> TRUE] : b \in { 1, 2 } }

InitTracks == IdleController /\ EmptyStorage /\ IdleTrack /\ IdleExport /\ IdleRepo /\ IdleAsset

\* _add_audio_file while the audio directory holds at most MaxLibTracks
\* files (files whose unlink failed stay behind)
L_AddAudioFile(source) ==
    /\ HasShow
    /\ Cardinality(DOMAIN FilesOf(assets, current_show.name)) <= MaxLibTracks
    /\ C_AddAudioFileUpTo(source, MaxLibTracks)

NextTracks ==
    \/ C_OnNewShow("A")
    \/ \E source \in LibSources : L_AddAudioFile(source)
    \/ \E i \in 0..(MaxLibTracks - 1) : C_OnTrackSelected(i)
    \/ \E i \in 0..(MaxLibTracks - 1), o \in RemoveOutcomes : C_OnRemoveTrack(i, o)
    \/ C_OnSaveShow("ok")

SpecTracks == InitTracks /\ [][NextTracks]_vars

\* bytes of the file at a path of the managed tree
AssetBytes(fs_assets, path) == fs_assets[path.dir[2]][path.name]

\* C25 (as stated): load(show.name) right after save(show) returns, at each
\* position, a track whose audio_path is the audio_path of the track that
\* add_audio_file_to_show returned, also when the copy went to a suffixed
\* name.
C25_AssetPathSurvivesReload ==
    (HasShow /\ last_event.kind = "save_show" /\ last_event.ok) =>
        LET r == load(docs, current_show.name)
        IN /\ ~IsErr(r)
           /\ Len(r.tracks) = Len(current_show.tracks)
           /\ \A i \in 1..Len(current_show.tracks) :
                 r.tracks[i].audio_path = current_show.tracks[i].audio_path

\* C26 (as stated): after any sequence of add-track and remove-track
\* operations every track still in the show has a file at its audio_path.
C26_RemoveKeepsOtherAssets ==
    HasShow => \A i \in 1..Len(current_show.tracks) :
                  AudioExists(assets, current_show.tracks[i].audio_path)

----------------------------------------------------------------------------
(* SpecLibrary: shows created, opened, saved, saved under another name and  *)
(* auto-saved while tracks come and go, with saves and unlinks that may fail *)

LibShowNames == { "A", "B" }
LibSource == [name |-> SongMp3, bytes |-> << 1 >>, exists |-> TRUE]

InitLibrary == IdleController /\ EmptyStorage /\ IdleTrack /\ IdleExport /\ IdleRepo /\ IdleAsset

NextLibrary ==
    \/ C_OnNewShow("A")
    \/ \E n \in LibShowNames : C_OnOpenShow(n)
    \/ \E o \in CtlSaveOutcomes : C_OnSaveShow(o)
    \/ \E n \in LibShowNames, o \in CtlSaveOutcomes : C_OnSaveShowAs(n, o)
    \/ L_AddAudioFile(LibSource)
    \/ \E i \in 0..(MaxLibTracks - 1), o \in RemoveOutcomes : C_OnRemoveTrack(i, o)
    \/ \E o \in CtlSaveOutcomes : C_OnAutoSave(o)
    \/ C_Tick

SpecLibrary == InitLibrary /\ [][NextLibrary]_vars

\* C28 (as stated): after a Save Show As that succeeded, on a show all of
\* whose tracks had their asset, load(new name) returns a show equal to the
\* current one in which every track's audio_path is an existing file
\* holding the bytes of the track's audio.
C28_SaveAsKeepsAssets ==
    (/\ HasShow /\ last_event.kind = "save_show_as" /\ last_event.ok
     /\ \A i \in 1..Len(current_show.tracks) :
           AudioExists(assets, current_show.tracks[i].audio_path)) =>
        LET r == load(docs, current_show.name)
        IN /\ ~IsErr(r)
           /\ SameShow(r, current_show)
           /\ \A i \in 1..Len(r.tracks) :
                 IF AudioExists(assets, r.tracks[i].audio_path)
                 THEN AssetBytes(assets, r.tracks[i].audio_path)
                        = AssetBytes(assets, current_show.tracks[i].audio_path)
                 ELSE FALSE

\* C29 (as stated): whenever a show is loaded and is_modified is false, the
\* metadata document stored under the show's name exists and decodes to a
\* Show structurally equal to the show in memory.
C29_ModifiedFlagTruthful ==
    (HasShow /\ ~is_modified) =>
        LET r == load(docs, current_show.name)
        IN IF IsErr(r) THEN FALSE ELSE SameShow(r, current_show)

====
